---------------------------- MODULE Spec2Model ----------------------------
(***************************************************************************)
(* A model of scripts/domain-finder.py: the name-cleaning transform of     *)
(* generate_domains, the two availability checks and their fallback, and   *)
(* the driver loop of main() with its final report.                        *)
(*                                                                         *)
(* Text is modelled as a sequence of one-character strings, so that the    *)
(* regular-expression substitutions, str.lower() and the substring tests   *)
(* act on characters as the code's do.                                     *)
(***************************************************************************)
EXTENDS Integers, Sequences, FiniteSets, TLC

VARIABLES
    pc,           \* position of main(): "loop", "for", "summary", "done", "exited"; "clean" in SpecClean
    batch_num,    \* main: batch_num
    all_tested,   \* main: all_tested
    available,    \* main: available
    domains,      \* main: the batch returned by generate_domains
    idx,          \* main: position of the for loop in domains (1-based)
    world,        \* the environment: how the three external tools answer
    gen_outcome,  \* how the last run of the generation tool ended
    empty_calls,  \* number of generate_domains calls that returned []
    nonempty_calls, \* number of generate_domains calls that returned a batch
    last_check,   \* the last check_domain call: its result and the tools it ran
    check_log,    \* every check_domain call so far: <<domain, result>>
    report,       \* content of domain-results.txt, or NotWritten
    exit_status,  \* exit status of the process, or NoExit
    line,         \* generate_domains: the raw output line being cleaned
    name,         \* generate_domains: name, after the statements run so far
    cstep         \* generate_domains: the next statement of the loop body

vars == <<pc, batch_num, all_tested, available, domains, idx, world,
          gen_outcome, empty_calls, nonempty_calls, last_check, check_log,
          report, exit_status, line, name, cstep>>

driverVars == <<pc, batch_num, all_tested, available, domains, idx, world,
                gen_outcome, empty_calls, nonempty_calls, last_check,
                check_log, report, exit_status>>

cleanVars == <<line, name, cstep>>

-----------------------------------------------------------------------------
(* Characters *)

LowerLetters ==
    <<"a", "b", "c", "d", "e", "f", "g", "h", "i", "j", "k", "l", "m",
      "n", "o", "p", "q", "r", "s", "t", "u", "v", "w", "x", "y", "z">>

UpperLetters ==
    <<"A", "B", "C", "D", "E", "F", "G", "H", "I", "J", "K", "L", "M",
      "N", "O", "P", "Q", "R", "S", "T", "U", "V", "W", "X", "Y", "Z">>

Digits == {"0", "1", "2", "3", "4", "5", "6", "7", "8", "9"}

Whitespace == {" ", "\t", "\r", "\n"}

LowerSet == {LowerLetters[i] : i \in 1..Len(LowerLetters)}

UpperSet == {UpperLetters[i] : i \in 1..Len(UpperLetters)}

LowerOf == [c \in UpperSet |-> LowerLetters[CHOOSE i \in 1..Len(UpperLetters) : UpperLetters[i] = c]]

UpperOf == [c \in LowerSet |-> UpperLetters[CHOOSE i \in 1..Len(LowerLetters) : LowerLetters[i] = c]]

LeadingJunk == Digits \cup Whitespace \cup {".", "-", "*"}

\* [a-z]
IsLowerLetter(c) == c \in LowerSet

\* [\d\.\-\*\s]
IsLeadingJunk(c) == c \in LeadingJunk

\* str.lower() on one character
LowerChar(c) == IF c \in UpperSet THEN LowerOf[c] ELSE c

-----------------------------------------------------------------------------
(* The statements of the cleaning loop body of generate_domains *)

\* str.lower()
Lower(s) == [i \in 1..Len(s) |-> LowerChar(s[i])]

\* the positions of s whose character is not in the set junk
KeptPositions(s, junk) == {i \in 1..Len(s) : s[i] \notin junk}

First(S) == CHOOSE i \in S : \A j \in S : i <= j

Last(S) == CHOOSE i \in S : \A j \in S : j <= i

\* s without its leading run of characters of junk
DropLeadingRun(s, junk) ==
    LET kept == KeptPositions(s, junk)
    IN  IF kept = {} THEN <<>> ELSE SubSeq(s, First(kept), Len(s))

\* s without its trailing run of characters of junk
DropTrailingRun(s, junk) ==
    LET kept == KeptPositions(s, junk)
    IN  IF kept = {} THEN <<>> ELSE SubSeq(s, 1, Last(kept))

\* str.strip()
Strip(s) == DropTrailingRun(DropLeadingRun(s, Whitespace), Whitespace)

DotCom == <<".", "c", "o", "m">>

EndsWith(s, suffix) ==
    /\ Len(s) >= Len(suffix)
    /\ SubSeq(s, Len(s) - Len(suffix) + 1, Len(s)) = suffix

\* name = line.strip().lower()
StripLower(s) == Lower(Strip(s))

\* re.sub(r'com$', '', name): the pattern without its dot
DropDotCom_nodot(s) ==
    IF EndsWith(s, <<"c", "o", "m">>) THEN SubSeq(s, 1, Len(s) - 3) ELSE s

\* re.sub(r'\.com$', '', name): $ also matches before one final newline
DropDotCom(s) ==
    IF EndsWith(s, DotCom) THEN SubSeq(s, 1, Len(s) - Len(DotCom))
    ELSE IF EndsWith(s, DotCom \o <<"\n">>)
         THEN SubSeq(s, 1, Len(s) - Len(DotCom) - 1) \o <<"\n">>
         ELSE s

\* re.sub(r'^[\d\.\-\*\s]+', '', name)
DropLeading(s) == DropLeadingRun(s, LeadingJunk)

\* re.sub(r'[^a-z0-9]', '', name)
KeepLetters_alnum(s) == SelectSeq(s, LAMBDA c : c \in LowerSet \cup Digits)

\* re.sub(r'[^a-z]', '', name)
KeepLetters(s) == SelectSeq(s, IsLowerLetter)

\* the four statements of lines 64-67 in order
CleanName(l) == KeepLetters(DropLeading(DropDotCom(StripLower(l))))

\* line 69 without "name not in existing"
Accepted_any(n, existing) == n # <<>> /\ Len(n) >= 3

\* the condition of line 69
Accepted(n, existing) ==
    /\ n # <<>>
    /\ Len(n) >= 3
    /\ \A i \in 1..Len(existing) : existing[i] # n

-----------------------------------------------------------------------------
(* Values shared by the specifications *)

NotWritten == <<>>

NoExit == "running"

NoCheck == [ret |-> FALSE, calls |-> <<>>, whois |-> FALSE, nslookup |-> FALSE]

NoWorld == [gen |-> "none", whois |-> "none", dns |-> "none"]

-----------------------------------------------------------------------------
(* SpecClean: the loop body of generate_domains (lines 62-70) run on one   *)
(* raw output line, one statement per step.                                *)

\* longest body of a raw line drawn in SpecClean
MaxBody == 3

BodyChars == {"a", "m", "B", ".", "-", "9", " "}

RECURSIVE SeqsUpTo(_, _)
SeqsUpTo(S, n) ==
    IF n = 0 THEN {<<>>}
    ELSE LET shorter == SeqsUpTo(S, n - 1)
         IN  shorter \cup {Append(s, c) : s \in {t \in shorter : Len(t) = n - 1}, c \in S}

LinePrefixes ==
    {<<>>, <<"1", ".", " ">>, <<"*", " ">>, <<"-">>, <<" ", "c", "o">>}

LineSuffixes ==
    {<<>>, DotCom, <<".", "C", "O", "M">>, DotCom \o <<" ">>,
     DotCom \o <<".">>, <<"c", "o", "m">>}

Example1 == <<"1", ".", " ", "F", "i", "t", "H", "a", "b", "i", "t", ".", "c", "o", "m">>

Example2 == <<"*", " ", "c", "o", "-", "a", "c", "h", "9", "9">>

Example3 == <<"a", "b">>

RawLines ==
    {Example1, Example2, Example3}
    \cup {p \o b \o s : p \in LinePrefixes, b \in SeqsUpTo(BodyChars, MaxBody),
                        s \in LineSuffixes}

Histories == {<<>>, <<<<"a", "m", "b">>, <<"c", "o", "a", "c", "h">>>>}

InitClean ==
    /\ line \in RawLines
    /\ name = <<>>
    /\ cstep = "strip_lower"
    /\ pc = "clean"
    /\ all_tested \in Histories
    /\ domains = <<>>
    /\ batch_num = 0
    /\ available = <<>>
    /\ idx = 1
    /\ world = NoWorld
    /\ gen_outcome = "none"
    /\ empty_calls = 0
    /\ nonempty_calls = 0
    /\ last_check = NoCheck
    /\ check_log = <<>>
    /\ report = NotWritten
    /\ exit_status = NoExit

CleanFrame ==
    UNCHANGED <<pc, batch_num, all_tested, available, idx, world, gen_outcome,
                empty_calls, nonempty_calls, last_check, check_log, report,
                exit_status, line>>

\* line 64
StmtStripLower ==
    /\ pc = "clean" /\ cstep = "strip_lower"
    /\ name' = StripLower(line)
    /\ cstep' = "dot_com"
    /\ UNCHANGED domains
    /\ CleanFrame

\* line 65
StmtDropDotCom ==
    /\ pc = "clean" /\ cstep = "dot_com"
    /\ name' = DropDotCom(name)
    /\ cstep' = "leading"
    /\ UNCHANGED domains
    /\ CleanFrame

\* line 66
StmtDropLeading ==
    /\ pc = "clean" /\ cstep = "leading"
    /\ name' = DropLeading(name)
    /\ cstep' = "letters"
    /\ UNCHANGED domains
    /\ CleanFrame

\* line 67
StmtKeepLetters ==
    /\ pc = "clean" /\ cstep = "letters"
    /\ name' = KeepLetters(name)
    /\ cstep' = "filter"
    /\ UNCHANGED domains
    /\ CleanFrame

\* lines 69-70, the name kept
StmtKeep ==
    /\ pc = "clean" /\ cstep = "filter"
    /\ Accepted(name, all_tested)
    /\ domains' = Append(domains, name)
    /\ cstep' = "kept"
    /\ UNCHANGED name
    /\ CleanFrame

\* line 69, the name dropped
StmtReject ==
    /\ pc = "clean" /\ cstep = "filter"
    /\ ~Accepted(name, all_tested)
    /\ cstep' = "rejected"
    /\ UNCHANGED <<name, domains>>
    /\ CleanFrame

NextClean ==
    \/ StmtStripLower
    \/ StmtDropDotCom
    \/ StmtDropLeading
    \/ StmtKeepLetters
    \/ StmtKeep
    \/ StmtReject

SpecClean == InitClean /\ [][NextClean]_vars

-----------------------------------------------------------------------------
(* generate_domains *)

\* domains[:20]
GenLimit == 20

Min(a, b) == IF a < b THEN a ELSE b

\* lines 61-70: the names of the lines, cleaned, that pass the condition of line 69
ParseLines(lines, existing) ==
    LET names == [i \in 1..Len(lines) |-> CleanName(lines[i])]
    IN  SelectSeq(names, LAMBDA n : Accepted(n, existing))

\* domains[:19]
Truncate_short(ds) == SubSeq(ds, 1, Min(GenLimit - 1, Len(ds)))

\* line 72 with no slice
Truncate_none(ds) == ds

\* line 72: domains[:20]
Truncate(ds) == SubSeq(ds, 1, Min(GenLimit, Len(ds)))

\* generate_domains without the return code test of lines 55-57
generate_domains_no_rc(existing, run) ==
    CASE run.kind = "missing" -> [exits |-> TRUE, ret |-> <<>>]
      [] run.kind = "timeout" -> [exits |-> FALSE, ret |-> <<>>]
      [] OTHER -> [exits |-> FALSE, ret |-> Truncate(ParseLines(run.lines, existing))]

\* generate_domains handling a missing tool as it handles a timeout
generate_domains_retry(existing, run) ==
    CASE run.kind = "missing" -> [exits |-> FALSE, ret |-> <<>>]
      [] run.kind = "timeout" -> [exits |-> FALSE, ret |-> <<>>]
      [] run.kind = "exit" /\ run.returncode # 0 -> [exits |-> FALSE, ret |-> <<>>]
      [] OTHER -> [exits |-> FALSE, ret |-> Truncate(ParseLines(run.lines, existing))]

\* run is how subprocess.run(["claude", "-p", prompt]) ended:
\* kind "missing" (FileNotFoundError), "timeout" (TimeoutExpired), or "exit"
\* with a return code and the lines of stdout.strip().split("\n").
\* The result is the returned list, or the exit of the process (sys.exit(1)).
generate_domains(existing, run) ==
    CASE run.kind = "missing" -> [exits |-> TRUE, ret |-> <<>>]
      [] run.kind = "timeout" -> [exits |-> FALSE, ret |-> <<>>]
      [] run.kind = "exit" /\ run.returncode # 0 -> [exits |-> FALSE, ret |-> <<>>]
      [] OTHER -> [exits |-> FALSE, ret |-> Truncate(ParseLines(run.lines, existing))]

-----------------------------------------------------------------------------
(* check_domain_whois, check_domain_nslookup, check_domain *)

Contains(s, p) ==
    \E i \in 1..(Len(s) - Len(p) + 1) : SubSeq(s, i, i + Len(p) - 1) = p

available_patterns ==
    <<<<"n", "o", " ", "m", "a", "t", "c", "h">>,
      <<"n", "o", "t", " ", "f", "o", "u", "n", "d">>,
      <<"n", "o", " ", "e", "n", "t", "r", "i", "e", "s", " ", "f", "o", "u", "n", "d">>,
      <<"n", "o", " ", "d", "a", "t", "a", " ", "f", "o", "u", "n", "d">>,
      <<"d", "o", "m", "a", "i", "n", " ", "n", "o", "t", " ", "f", "o", "u", "n", "d">>,
      <<"n", "o", " ", "w", "h", "o", "i", "s", " ", "d", "a", "t", "a">>>>

\* run is how subprocess.run(["whois", ...]) ended: kind "timeout"
\* (TimeoutExpired), "error" (any other exception) or "exit" with stdout, stderr
check_domain_whois(run) ==
    IF run.kind # "exit" THEN FALSE
    ELSE LET output == Lower(run.stdout) \o Lower(run.stderr)
         IN  \E i \in 1..Len(available_patterns) : Contains(output, available_patterns[i])

check_domain_nslookup(run) ==
    IF run.kind # "exit" THEN FALSE
    ELSE LET output == Lower(run.stdout) \o Lower(run.stderr)
         IN  Contains(output, <<"n", "x", "d", "o", "m", "a", "i", "n">>)
             \/ Contains(output, <<"c", "a", "n", "'", "t", " ", "f", "i", "n", "d">>)

\* check_domain running both tools whatever the first returns
check_domain_both(whois_run, nslookup_run) ==
    LET primary == check_domain_whois(whois_run)
        fallback == check_domain_nslookup(nslookup_run)
    IN  [ret |-> primary \/ fallback, calls |-> <<"whois", "nslookup">>,
         whois |-> primary, nslookup |-> fallback]

\* whois_run, nslookup_run: how the two tools end when run for the domain.
\* calls lists the tools that were run.
check_domain(whois_run, nslookup_run) ==
    IF check_domain_whois(whois_run)
    THEN [ret |-> TRUE, calls |-> <<"whois">>,
          whois |-> TRUE, nslookup |-> FALSE]
    ELSE LET fallback == check_domain_nslookup(nslookup_run)
         IN  [ret |-> fallback, calls |-> <<"whois", "nslookup">>,
              whois |-> FALSE, nslookup |-> fallback]

-----------------------------------------------------------------------------
(* The environment: the names the generation tool prints and the answers   *)
(* of the two lookup tools.                                                *)

\* the tool prints at most GenLimit + MaxExtra names in one run
MaxExtra == 1

\* at most MaxEmpty calls of generate_domains return no name
MaxEmpty == 2

NameChars == <<"a", "b", "d", "e", "f", "g">>

NameBase == Len(NameChars)

\* the k-th name the generation tool comes up with, k >= 0
Name(k) ==
    <<NameChars[((k \div (NameBase * NameBase)) % NameBase) + 1],
      NameChars[((k \div NameBase) % NameBase) + 1],
      NameChars[(k % NameBase) + 1]>>

IndexOf == [c \in {NameChars[i] : i \in 1..NameBase} |-> CHOOSE i \in 1..NameBase : NameChars[i] = c]

CharIndex(c) == IndexOf[c]

NameIndex(d) ==
    (CharIndex(d[1]) - 1) * NameBase * NameBase
    + (CharIndex(d[2]) - 1) * NameBase + (CharIndex(d[3]) - 1)

UpperChar(c) == IF c \in LowerSet THEN UpperOf[c] ELSE c

Upper(s) == [i \in 1..Len(s) |-> UpperChar(s[i])]

\* the ways the tool writes a name on a line, by the position of the line
Decorate(d, pos) ==
    CASE pos % 3 = 0 -> d
      [] pos % 3 = 1 -> <<"1", ".", " ", UpperChar(d[1])>> \o Tail(d) \o DotCom
      [] OTHER -> <<"*", " ", d[1], "-">> \o Tail(d) \o <<"9", " ">>

GenProfiles == {"bulk", "trickle"}

\* "failing": the tool times out for one name and raises for the next
WhoisModes == {"ok", "refused", "failing"}

DnsModes == {"ok", "norecord", "failing"}

Worlds == [gen : GenProfiles, whois : WhoisModes, dns : DnsModes]

\* the registry: every fifth name is unregistered
Registered(d) == NameIndex(d) % 5 # 4

TimedOut == [kind |-> "timeout", stdout |-> <<>>, stderr |-> <<>>]

Raised == [kind |-> "error", stdout |-> <<>>, stderr |-> <<>>]

\* how subprocess.run(["whois", d + ".com"]) ends in world w
WhoisRun(w, d) ==
    CASE w.whois = "failing" -> IF NameIndex(d) % 2 = 0 THEN TimedOut ELSE Raised
      [] w.whois = "refused" ->
            [kind |-> "exit", stdout |-> <<>>, stderr |-> <<"c", "o", "n", "n", "e", "c", "t", ":", " ", "r", "e", "f", "u", "s", "e", "d">>]
      [] OTHER ->
            [kind |-> "exit", stderr |-> <<>>,
             stdout |->
                IF Registered(d)
                THEN <<"D", "o", "m", "a", "i", "n", " ", "N", "a", "m", "e", ":", " ">> \o Upper(d) \o <<".", "C", "O", "M">>
                ELSE CASE NameIndex(d) % 3 = 0 -> <<"N", "o", " ", "m", "a", "t", "c", "h", " ", "f", "o", "r", " ", "\"">> \o Upper(d) \o <<".", "C", "O", "M", "\"", ".">>
                       [] NameIndex(d) % 3 = 1 -> <<"N", "O", "T", " ", "F", "O", "U", "N", "D">>
                       [] OTHER -> <<"N", "o", " ", "D", "a", "t", "a", " ", "F", "o", "u", "n", "d">>]

\* how subprocess.run(["nslookup", d + ".com"]) ends in world w
NslookupRun(w, d) ==
    CASE w.dns = "failing" -> IF NameIndex(d) % 2 = 0 THEN Raised ELSE TimedOut
      [] w.dns = "norecord" ->
            [kind |-> "exit", stderr |-> <<>>,
             stdout |-> <<"*", "*", "*", " ", "C", "a", "n", "'", "t", " ", "f", "i", "n", "d", " ">> \o d \o <<".", "c", "o", "m", ":", " ", "N", "o", " ", "a", "n", "s", "w", "e", "r">>]
      [] OTHER ->
            IF Registered(d)
            THEN [kind |-> "exit", stderr |-> <<>>,
                  stdout |-> <<"N", "a", "m", "e", ":", " ">> \o d \o <<".", "c", "o", "m">>]
            ELSE [kind |-> "exit", stdout |-> <<>>,
                  stderr |-> <<"*", "*", " ", "s", "e", "r", "v", "e", "r", " ", "c", "a", "n", "'", "t", " ", "f", "i", "n", "d", " ">> \o d \o <<".", "c", "o", "m", ":", " ", "N", "X", "D", "O", "M", "A", "I", "N">>]

\* the lines of one run that prints count new names: with stale, the name
\* tested last comes first, and a line too short to be a name and an empty
\* line follow; with dup, the first new name is printed twice
ToolLines(tested, count, stale, dup) ==
    LET fresh == [j \in 1..count |-> Decorate(Name(Len(tested) + j - 1), j)]
        body == IF dup /\ count > 0
                THEN <<fresh[1], Decorate(Name(Len(tested)), 2)>> \o Tail(fresh)
                ELSE fresh
    IN  (IF stale /\ tested # <<>>
         THEN <<Decorate(tested[Len(tested)], 1)>> ELSE <<>>)
        \o (IF stale THEN <<<<"a", "b">>, <<>>>> ELSE <<>>)
        \o body

LineCounts(w) ==
    CASE w.gen = "bulk" -> (GenLimit - 1)..(GenLimit + MaxExtra)
      [] w.gen = "trickle" -> {1}
      [] OTHER -> {GenLimit}

\* the runs of the generation tool that print names
GoodRuns(w, tested) ==
    IF w.gen = "stub"
    THEN {[kind |-> "exit", returncode |-> 0,
           lines |-> ToolLines(tested, GenLimit, FALSE, FALSE)]}
    ELSE {[kind |-> "exit", returncode |-> 0,
           lines |-> ToolLines(tested, c, FALSE, FALSE)] : c \in LineCounts(w)}
         \cup {[kind |-> "exit", returncode |-> 0,
                lines |-> ToolLines(tested, c, st, dp)] :
                  c \in LineCounts(w) \ {GenLimit - 1, GenLimit + MaxExtra},
                  st \in BOOLEAN, dp \in BOOLEAN}

\* the runs of the generation tool that fail: a timeout, a non-zero exit
\* after one name was printed, an exit with no usable line
BadRuns(tested) ==
    {[kind |-> "timeout", returncode |-> 0, lines |-> <<>>],
     [kind |-> "exit", returncode |-> 1, lines |-> <<Name(Len(tested))>>],
     [kind |-> "exit", returncode |-> 0, lines |-> <<<<"a", "b">>, <<>>, <<"1", ".", " ">>>>]}

\* the tool is not installed
MissingRun == [kind |-> "missing", returncode |-> 0, lines |-> <<>>]

ToolRuns(w, tested) ==
    IF w.gen = "stub" THEN GoodRuns(w, tested)
    ELSE GoodRuns(w, tested) \cup BadRuns(tested) \cup {MissingRun}

\* how a run of the generation tool ended
Outcome(run) ==
    CASE run.kind = "exit" /\ run.returncode = 0 -> "ok"
      [] run.kind = "exit" -> "nonzero"
      [] OTHER -> run.kind

-----------------------------------------------------------------------------
(* main *)

target_total == 100

InList(d, list) == \E i \in 1..Len(list) : list[i] = d

\* line 166 with the membership test left out
AlreadyTested_never(d, tested) == FALSE

\* line 166: if domain in all_tested
AlreadyTested(d, tested) == InList(d, tested)

\* lines 175-176 without the test of is_available
AppendIfAvailable_always(avail, d, is_available) == Append(avail, d)

\* lines 175-176
AppendIfAvailable(avail, d, is_available) ==
    IF is_available THEN Append(avail, d) ELSE avail

\* line 151: while len(all_tested) < target_total
LoopCondition(tested) == Len(tested) < target_total

\* line 181: if len(all_tested) >= target_total
TargetReached(tested) == Len(tested) >= target_total

\* lines 199-205: the lines written to domain-results.txt
ReportLines(avail, tested) ==
    <<[kind |-> "header", text |-> "AVAILABLE DOMAINS:", total |-> 0]>>
    \o [i \in 1..Len(avail) |-> [kind |-> "entry", text |-> avail[i] \o DotCom, total |-> 0]]
    \o <<[kind |-> "blank", text |-> "", total |-> 0],
         [kind |-> "header", text |-> "TESTED", total |-> Len(tested)]>>
    \o [i \in 1..Len(tested) |-> [kind |-> "entry", text |-> tested[i] \o DotCom, total |-> 0]]

Init ==
    /\ pc = "loop"
    /\ batch_num = 0
    /\ all_tested = <<>>
    /\ available = <<>>
    /\ domains = <<>>
    /\ idx = 1
    /\ world \in Worlds
    /\ gen_outcome = "none"
    /\ empty_calls = 0
    /\ nonempty_calls = 0
    /\ last_check = NoCheck
    /\ check_log = <<>>
    /\ report = NotWritten
    /\ exit_status = NoExit
    /\ line = <<>>
    /\ name = <<>>
    /\ cstep = "off"

\* lines 158-162: generate_domains returned a batch
GenerateBatch(r) ==
    /\ ~r.exits
    /\ r.ret # <<>>
    /\ domains' = r.ret
    /\ nonempty_calls' = nonempty_calls + 1
    /\ idx' = 1
    /\ pc' = "for"
    /\ UNCHANGED <<empty_calls, exit_status>>

\* lines 158-160: generate_domains returned [], and the loop continues
GenerateEmpty(r) ==
    /\ ~r.exits
    /\ r.ret = <<>>
    /\ empty_calls < MaxEmpty
    /\ domains' = r.ret
    /\ empty_calls' = empty_calls + 1
    /\ UNCHANGED <<pc, idx, nonempty_calls, exit_status>>

\* lines 77-79: sys.exit(1) ends the process inside generate_domains
GenerateExit(r) ==
    /\ r.exits
    /\ pc' = "exited"
    /\ exit_status' = "1"
    /\ UNCHANGED <<domains, idx, empty_calls, nonempty_calls>>

\* lines 151-162: the loop condition holds, and generate_domains is called
Generate ==
    /\ pc = "loop"
    /\ LoopCondition(all_tested)
    /\ batch_num' = batch_num + 1
    /\ \E run \in ToolRuns(world, all_tested) :
          LET r == generate_domains(all_tested, run)
          IN  /\ gen_outcome' = Outcome(run)
              /\ \/ GenerateBatch(r)
                 \/ GenerateEmpty(r)
                 \/ GenerateExit(r)
    /\ UNCHANGED <<all_tested, available, world, last_check, check_log,
                   report, cleanVars>>

\* lines 165-176: one domain of the batch, not tested before
TestDomain ==
    /\ pc = "for"
    /\ idx <= Len(domains)
    /\ ~AlreadyTested(domains[idx], all_tested)
    /\ LET domain == domains[idx]
           is_available == check_domain(WhoisRun(world, domain),
                                        NslookupRun(world, domain))
       IN  /\ all_tested' = Append(all_tested, domain)
           /\ last_check' = is_available
           /\ check_log' = Append(check_log, [domain |-> domain, ret |-> is_available.ret])
           /\ available' = AppendIfAvailable(available, domain, is_available.ret)
    /\ idx' = idx + 1
    /\ UNCHANGED <<pc, batch_num, domains, world, gen_outcome, empty_calls,
                   nonempty_calls, report, exit_status, cleanVars>>

\* lines 165-167: one domain of the batch, tested before
SkipDomain ==
    /\ pc = "for"
    /\ idx <= Len(domains)
    /\ AlreadyTested(domains[idx], all_tested)
    /\ idx' = idx + 1
    /\ UNCHANGED <<pc, batch_num, all_tested, available, domains, world,
                   gen_outcome, empty_calls, nonempty_calls, last_check,
                   check_log, report, exit_status, cleanVars>>

\* lines 178-182 and 151: the batch is done; line 181 leaves the loop once
\* target_total names are tested, and otherwise the loop condition of line
\* 151 is tested again
EndBatch ==
    /\ pc = "for"
    /\ idx > Len(domains)
    /\ pc' = IF TargetReached(all_tested) \/ ~LoopCondition(all_tested)
             THEN "summary" ELSE "loop"
    /\ UNCHANGED <<batch_num, all_tested, available, domains, idx, world,
                   gen_outcome, empty_calls, nonempty_calls, last_check,
                   check_log, report, exit_status, cleanVars>>

\* lines 184-207: the summary and the report file, then main returns
WriteReport ==
    /\ pc = "summary"
    /\ report' = ReportLines(available, all_tested)
    /\ pc' = "done"
    /\ exit_status' = "0"
    /\ UNCHANGED <<batch_num, all_tested, available, domains, idx, world,
                   gen_outcome, empty_calls, nonempty_calls, last_check,
                   check_log, cleanVars>>

Next ==
    \/ Generate
    \/ TestDomain
    \/ SkipDomain
    \/ EndBatch
    \/ WriteReport

Spec == Init /\ [][Next]_vars

-----------------------------------------------------------------------------
(* SpecE2E: the end-to-end scenario.  The generation tool prints 20 new    *)
(* names in every run and never fails; the registration lookup answers for *)
(* every name, and every fifth name is unregistered.                       *)

StubWorld == [gen |-> "stub", whois |-> "ok", dns |-> "ok"]

InitE2E ==
    /\ pc = "loop"
    /\ batch_num = 0
    /\ all_tested = <<>>
    /\ available = <<>>
    /\ domains = <<>>
    /\ idx = 1
    /\ world = StubWorld
    /\ gen_outcome = "none"
    /\ empty_calls = 0
    /\ nonempty_calls = 0
    /\ last_check = NoCheck
    /\ check_log = <<>>
    /\ report = NotWritten
    /\ exit_status = NoExit
    /\ line = <<>>
    /\ name = <<>>
    /\ cstep = "off"

NextE2E ==
    \/ Generate
    \/ TestDomain
    \/ EndBatch
    \/ WriteReport

SpecE2E == InitE2E /\ [][NextE2E]_vars

-----------------------------------------------------------------------------
(* The claims *)

InDriver == pc \in {"loop", "for", "summary", "done", "exited"}

\* the domain of the last check_domain call
LastDomain == all_tested[Len(all_tested)]

(* C1: in every reachable state of the driver loop the tested sequence     *)
(* holds no name twice, whatever the batches hold: a name repeated within  *)
(* a batch or a name tested in an earlier batch.                           *)
C1_NoDuplicates ==
    InDriver =>
        Cardinality({all_tested[i] : i \in 1..Len(all_tested)}) = Len(all_tested)

\* a second or later batch that holds a name twice has been worked through
C1_Witness ==
    /\ pc = "for"
    /\ idx > Len(domains)
    /\ batch_num >= 2
    /\ Len(all_tested) > GenLimit
    /\ \E i \in 1..Len(domains) : \E j \in (i + 1)..Len(domains) : domains[i] = domains[j]

(* C2: check_domain returns true exactly when at least one of the two      *)
(* checks returns true for the domain, a check that times out or raises    *)
(* counting as false; the registration lookup always runs, and the         *)
(* resolution lookup runs exactly when the registration check was false.   *)
C2_CheckDomain ==
    (InDriver /\ check_log # <<>>) =>
        LET whois_run == WhoisRun(world, LastDomain)
            nslookup_run == NslookupRun(world, LastDomain)
            primary == check_domain_whois(whois_run)
            fallback == check_domain_nslookup(nslookup_run)
        IN  /\ last_check.ret = (primary \/ fallback)
            /\ last_check.calls[1] = "whois"
            /\ InList("nslookup", last_check.calls) = ~primary
            /\ Len(last_check.calls) = IF primary THEN 1 ELSE 2
            /\ whois_run.kind \in {"timeout", "error"} => ~primary
            /\ nslookup_run.kind \in {"timeout", "error"} => ~fallback
            /\ check_log[Len(check_log)] = [domain |-> LastDomain, ret |-> last_check.ret]

\* the registration lookup timed out, the fallback ran and found the name free
C2_Witness ==
    /\ InDriver
    /\ check_log # <<>>
    /\ WhoisRun(world, LastDomain).kind = "timeout"
    /\ last_check.calls = <<"whois", "nslookup">>
    /\ last_check.ret

\* the entries of the k-th section of the report: those after its k-th header
\* and before the next header
ReportSection(rep, k) ==
    LET headers == {i \in 1..Len(rep) : rep[i].kind = "header"}
        start == CHOOSE i \in headers : Cardinality({h \in headers : h <= i}) = k
        stop == IF \E h \in headers : h > start
                THEN CHOOSE h \in headers : h > start /\ \A g \in headers : g > start => h <= g
                ELSE Len(rep) + 1
    IN  SelectSeq(SubSeq(rep, start + 1, stop - 1), LAMBDA l : l.kind = "entry")

\* a measure every step of the driver raises
Rank ==
    (2 * GenLimit + 4) * batch_num + 2 * idx
    + (CASE pc = "for" -> 0 [] pc = "done" -> 2 [] OTHER -> 1)

\* the driver has ended, or its position has a next step in the scenario
CanStep ==
    \/ pc = "done"
    \/ pc = "summary"
    \/ pc = "loop" /\ LoopCondition(all_tested)
          /\ \E run \in ToolRuns(world, all_tested) :
                generate_domains(all_tested, run).ret # <<>>
    \/ pc = "for" /\ idx > Len(domains)
    \/ pc = "for" /\ idx <= Len(domains) /\ ~AlreadyTested(domains[idx], all_tested)

(* C3: with a generation tool that prints 20 new names in every run and a  *)
(* registry in which every fifth name is free, the driver ends (no         *)
(* position but the end is without a next step, and every step raises a    *)
(* bounded measure), after exactly 5 calls of the generator, with 100      *)
(* names tested and 20 of them available, and the report holds 20 entries  *)
(* under AVAILABLE DOMAINS and 100 under TESTED.                           *)
C3_EndToEnd ==
    /\ [](pc = "done" =>
            /\ batch_num = 5
            /\ Len(all_tested) = 100
            /\ Len(available) = 20
            /\ Len(ReportSection(report, 1)) = 20
            /\ report[1].text = "AVAILABLE DOMAINS:"
            /\ Len(ReportSection(report, 2)) = 100
            /\ \A i \in 1..20 : ReportSection(report, 1)[i].text = all_tested[5 * i] \o DotCom)
    /\ [](CanStep /\ batch_num <= 5 /\ idx <= GenLimit + 1)
    /\ [][Rank' > Rank]_vars

\* the scenario has run to its end and the report is written
C3_Witness ==
    /\ pc = "done"
    /\ world = StubWorld
    /\ report # NotWritten
    /\ exit_status = "0"

(* C4: an iteration in which generate_domains returns [] (the tool timed   *)
(* out or exited non-zero) raises nothing, runs no availability check and  *)
(* leaves the tested and the available sequence as they were; after two    *)
(* such iterations a normal batch is tested as usual.                      *)
C4_EmptyIteration ==
    /\ [](InDriver =>
            /\ gen_outcome \in {"timeout", "nonzero"} =>
                  /\ pc = "loop"
                  /\ domains = <<>>
                  /\ exit_status = NoExit
            /\ (empty_calls = 2 /\ nonempty_calls = 1 /\ pc = "for" /\ idx > Len(domains)) =>
                  /\ \A i \in 1..Len(domains) : InList(domains[i], all_tested)
                  /\ Len(check_log) = Len(all_tested)
                  /\ all_tested # <<>>)
    /\ [][empty_calls' # empty_calls =>
            /\ all_tested' = all_tested
            /\ available' = available
            /\ check_log' = check_log
            /\ last_check' = last_check
            /\ pc' = "loop"
            /\ exit_status' = NoExit
            /\ report' = NotWritten]_vars

\* two empty iterations, then a batch that has been tested to its end
C4_Witness ==
    /\ empty_calls = 2
    /\ nonempty_calls = 1
    /\ batch_num = 3
    /\ pc = "for"
    /\ idx > Len(domains)
    /\ Len(all_tested) >= 1
    /\ Len(check_log) = Len(all_tested)

\* the number of lower-case letters of s
LetterCount(s) == Cardinality({i \in 1..Len(s) : s[i] \in LowerSet})

CleanDone == pc = "clean" /\ cstep \in {"filter", "kept", "rejected"}

(* C5: cleaning a raw line lower-cases it, removes a trailing ".com", the  *)
(* leading run of digits, dots, hyphens, asterisks and whitespace and      *)
(* every other non-letter, and rejects a result shorter than 3 characters: *)
(* "1. FitHabit.com" gives "fithabit", "* co-ach99" gives "coach", "ab" is *)
(* rejected.                                                               *)
C5_Cleaning ==
    /\ (pc = "clean" /\ cstep = "letters") =>
          (name = <<>> \/ Head(name) \notin LeadingJunk)
    /\ CleanDone =>
          /\ \A i \in 1..Len(name) : name[i] \in LowerSet
          /\ LetterCount(name) = LetterCount(Lower(line))
                - (IF EndsWith(Lower(Strip(line)), DotCom) THEN 3 ELSE 0)
          /\ line = Example1 => name = <<"f", "i", "t", "h", "a", "b", "i", "t">>
          /\ line = Example2 => name = <<"c", "o", "a", "c", "h">>
          /\ line = Example3 => cstep # "kept"
          /\ Len(name) < 3 => cstep # "kept"
          /\ cstep = "kept" => domains = <<name>>
          /\ cstep = "rejected" => domains = <<>> /\ (Len(name) < 3 \/ InList(name, all_tested))

\* the first example line has been cleaned and its name kept
C5_Witness ==
    /\ pc = "clean"
    /\ cstep = "kept"
    /\ line = Example1
    /\ name = <<"f", "i", "t", "h", "a", "b", "i", "t">>

(* C6: cleaning is idempotent: a name of lower-case letters only comes     *)
(* out unchanged, and so cleaning the result of cleaning any line returns  *)
(* that result.                                                            *)
C6_Idempotent ==
    CleanDone =>
        /\ (\A i \in 1..Len(line) : line[i] \in LowerSet) => name = line
        /\ CleanName(name) = name

\* a clean name that ends in the letters com was cleaned and kept
C6_Witness ==
    /\ pc = "clean"
    /\ cstep = "kept"
    /\ \A i \in 1..Len(line) : line[i] \in LowerSet
    /\ EndsWith(line, <<"c", "o", "m">>)
    /\ name = line

(* C7: when the generation tool is not installed the process exits at once *)
(* with status 1, whatever was tested before, and the report file is not   *)
(* written: the report is written only when the loop ends normally.        *)
C7_MissingTool ==
    InDriver =>
        /\ gen_outcome = "missing" => pc = "exited"
        /\ pc = "exited" => (exit_status = "1" /\ report = NotWritten /\ gen_outcome = "missing")
        /\ report # NotWritten => (pc = "done" /\ exit_status = "0")
        /\ exit_status = "0" => report = ReportLines(available, all_tested)

\* the tool went missing after a batch had been tested
C7_Witness ==
    /\ pc = "exited"
    /\ exit_status = "1"
    /\ Len(all_tested) >= GenLimit
    /\ report = NotWritten

(* C8: the target of 100 is a minimum with a bounded overshoot: the        *)
(* generator is not called once 100 names are tested, the report is        *)
(* written only with at least 100 names tested, a batch holds at most 20   *)
(* names and starts with fewer than 100 tested, so at most 119 names are   *)
(* ever tested.                                                            *)
C8_BoundedOvershoot ==
    /\ [](InDriver =>
            /\ Len(all_tested) <= 119
            /\ Len(domains) <= 20
            /\ pc = "for" => Len(all_tested) - (idx - 1) < 100
            /\ pc \in {"summary", "done"} => Len(all_tested) >= 100
            /\ report # NotWritten => Len(all_tested) >= 100)
    /\ [][batch_num' # batch_num => Len(all_tested) < 100]_vars

\* the run ended with 119 names tested
C8_Witness ==
    /\ pc = "done"
    /\ Len(all_tested) = 119
    /\ report # NotWritten

IsPrefix(s, t) == Len(s) <= Len(t) /\ SubSeq(t, 1, Len(s)) = s

(* C9: the available sequence is the subsequence of the tested sequence    *)
(* of the names whose one availability check returned true, in the same    *)
(* order, and both sequences only grow at their end.                       *)
C9_AvailableSubsequence ==
    /\ [](InDriver =>
            /\ all_tested = [i \in 1..Len(check_log) |-> check_log[i].domain]
            /\ available =
                  LET hits == SelectSeq(check_log, LAMBDA c : c.ret)
                  IN  [i \in 1..Len(hits) |-> hits[i].domain]
            /\ \A i \in 1..Len(available) : InList(available[i], all_tested))
    /\ [][IsPrefix(all_tested, all_tested') /\ IsPrefix(available, available')]_vars

\* some names were found available and some not, the first one not
C9_Witness ==
    /\ InDriver
    /\ Len(available) >= 2
    /\ Len(available) < Len(all_tested)
    /\ available[1] # all_tested[1]

(* C10: generate_domains returns no name of the tested history it is       *)
(* given, so every non-empty batch adds a name to the tested sequence and  *)
(* the loop ends after at most 100 non-empty batches; while every call     *)
(* returns [] the loop goes on and no report is written.                   *)
C10_Progress ==
    InDriver =>
        /\ pc = "loop" =>
              \A run \in ToolRuns(world, all_tested) :
                 LET ret == generate_domains(all_tested, run).ret
                 IN  \A i \in 1..Len(ret) : ~InList(ret[i], all_tested)
        /\ nonempty_calls <= 100
        /\ nonempty_calls <= Len(all_tested) + (IF pc = "for" /\ idx = 1 THEN 1 ELSE 0)
        /\ nonempty_calls = 0 => (pc \in {"loop", "exited"} /\ report = NotWritten)
        /\ batch_num = nonempty_calls + empty_calls + (IF pc = "exited" THEN 1 ELSE 0)

\* the run ended after 100 batches of one new name each
C10_Witness ==
    /\ pc = "done"
    /\ nonempty_calls = 100
    /\ report # NotWritten

====
